---- MODULE Spec2Model ----
(***************************************************************************)
(* Model of static/js/dashboard-utils.js (NewaySecurity dashboard):        *)
(* the video-stream reconnect logic, the two polling channels (status and  *)
(* recent events), the visibility handler and the timers that drive them.  *)
(* Time is in milliseconds.  All callbacks run on one event loop, so each  *)
(* handler is one atomic action.                                           *)
(***************************************************************************)
EXTENDS Integers, Sequences, FiniteSets, TLC

\* ---- config (dashboard-utils.js:11-16) ----
refreshInterval == 30000
statusCheckInterval == 60000
reconnectAttempts == 3
timeoutDelay == 2000

\* ---- bounds of the model ----
\* the clock stops advancing here
MaxTime == 62000
\* largest step of the clock when no timer is due earlier
TimeStep == 5000
\* number of 'error' events the stream element may dispatch
MaxErrors == 4
\* number of 'load' events the stream element may dispatch
MaxLoads == 2
\* number of visibilitychange events
MaxVisibility == 2
\* time of day at which the page is opened (one minute before midnight, so
\* that the local date changes while the page is open)
OpenedAt == 86340000
\* the first seconds of the page (SpecPage): length of the window and number
\* of 'error' events in it
PageTime == 6000
MaxPageErrors == 1

VARIABLES
    now,              \* Date.now()
    cameraConnected,  \* state.cameraConnected
    cameraIndicator,  \* classList of StatusManager.indicators.camera
    timers,           \* pending setTimeout callbacks of tryReconnect closures
    videoSrc,         \* elements.videoFeed.src: base URL and the '?t=' tokens after it
    videoStatus,      \* attempt number shown in elements.videoStatus (0: untouched)
    streamLoading,    \* the stream element is loading its src
    nReloads,         \* assignments to elements.videoFeed.src
    nFailed,          \* "Failed to reconnect after multiple attempts" reports
    nErrors,          \* 'error' events dispatched
    nLoads,           \* 'load' events dispatched
    consecErrors,     \* 'error' events since the last 'load'
    hidden,           \* document.hidden
    nVisibility,      \* visibilitychange events dispatched
    statusIssued,     \* fetch('/api/status') calls made
    statusInFlight,   \* ids of status requests not yet settled
    eventsIssued,     \* fetch('/api/logs?limit=10') calls made
    eventsInFlight,   \* ids of events requests not yet settled
    systemIndicator,  \* classList of StatusManager.indicators.system
    networkIndicator, \* classList of StatusManager.indicators.network
    failures,         \* history: channels that had a rejected or non-success response
    recentEvents,     \* state.recentEvents
    eventsDisplay,    \* children of elements.recentEvents, in document order
    recognitionCount, \* elements.recognitionCount.textContent
    nextEventsTick,   \* due time of the setInterval of refreshRecentEvents
    nextStatusTick,   \* due time of the setInterval of checkStatus
    last              \* history: what the last step did (read by the claims only)

monitorVars == <<cameraConnected, timers, videoSrc, videoStatus, streamLoading,
                 nReloads, nFailed, nErrors, nLoads, consecErrors>>
pollVars == <<statusIssued, statusInFlight, eventsIssued, eventsInFlight,
              systemIndicator, networkIndicator, failures>>
feedVars == <<recentEvents, eventsDisplay, recognitionCount>>
tickVars == <<nextEventsTick, nextStatusTick>>
visVars == <<hidden, nVisibility>>
vars == <<now, cameraIndicator, monitorVars, pollVars, feedVars, tickVars, visVars,
          last>>

Min(S) == CHOOSE x \in S : \A y \in S : x <= y

\* ---- StatusManager indicator updates ----
\* updateCameraStatus / updateNetworkStatus: remove one class, add the other
UpdateOnOff(classes, on) ==
    IF on THEN (classes \ {"status-offline"}) \cup {"status-online"}
          ELSE (classes \ {"status-online"}) \cup {"status-offline"}

updateCameraStatusAddOnly(classes, isConnected) ==
    classes \cup {IF isConnected THEN "status-online" ELSE "status-offline"}
updateCameraStatus(classes, isConnected) == UpdateOnOff(classes, isConnected)

updateNetworkStatus(classes, status) == UpdateOnOff(classes, status)

\* updateSystemStatus: remove the three classes, add the one the switch matches
updateSystemStatus(classes, status) ==
    LET cleared == classes \ {"status-online", "status-offline", "status-warning"}
    IN  IF status = "online" THEN cleared \cup {"status-online"}
        ELSE IF status = "warning" THEN cleared \cup {"status-warning"}
        ELSE IF status = "offline" THEN cleared \cup {"status-offline"}
        ELSE cleared

\* ---- attemptReconnect (dashboard-utils.js:202-235) ----
\* line 206: the closure gives up when its counter has reached the maximum
GivesUp(attempts) == attempts >= reconnectAttempts

\* line 230: delay of the timer armed after attempt number `attempts`
BackoffDelayFlat(attempts) == timeoutDelay
BackoffDelay(attempts) == timeoutDelay * attempts

\* line 227: the timer callback re-enters tryReconnect only when not connected
TimerRetriesAlways(connected) == TRUE
TimerRetries(connected) == ~connected

\* lines 221-222: src.split('?')[0] drops every earlier token, one '?t=' is appended
SplitBase(src) == [base |-> src.base, tokens |-> <<>>]
ReloadSrcAppending(src, t) == [src EXCEPT !.tokens = Append(src.tokens, t)]
ReloadSrc(src, t) == [SplitBase(src) EXCEPT !.tokens = <<t>>]

\* the history record: op names the handler that ran, k the closure's counter,
\* reloaded/armed/gaveUp what tryReconnect did, stale and connected what the
\* handler found, statusReq/eventsReq the requests it issued, wasHidden
\* document.hidden when it ran, outcome how the request it settled ended
\* ("rejected", "failure" for success: false, "success")
NoStep == [op |-> "init", k |-> 0, reloaded |-> FALSE, armed |-> 0,
           gaveUp |-> FALSE, stale |-> FALSE, connected |-> FALSE,
           statusReq |-> 0, eventsReq |-> 0, wasHidden |-> FALSE,
           outcome |-> "none"]

\* how a settled request ended, for the history record
Outcome(rejected, data) ==
    IF rejected THEN "rejected" ELSE IF data.success THEN "success" ELSE "failure"

\* tryReconnect, called with the closure's counter at `attempts`; `stale` tells
\* whether the closure was created before the last 'load' event (history only).
\* Sets every variable of the reconnect logic except cameraConnected and streamLoading.
TryReconnect(op, attempts, pending, stale, connected) ==
    IF GivesUp(attempts)
    THEN /\ nFailed' = nFailed + 1
         /\ timers' = pending
         /\ UNCHANGED <<videoSrc, videoStatus, nReloads>>
         /\ last' = [NoStep EXCEPT !.op = op, !.k = attempts, !.gaveUp = TRUE,
                                   !.stale = stale, !.connected = connected,
                                   !.wasHidden = hidden]
    ELSE LET k == attempts + 1
             d == BackoffDelay(k)
         IN  /\ videoStatus' = k
             /\ videoSrc' = ReloadSrc(videoSrc, now)
             /\ nReloads' = nReloads + 1
             /\ timers' = Append(pending, [attempts |-> k, armedAt |-> now,
                                           delay |-> d, due |-> now + d,
                                           stale |-> stale])
             /\ UNCHANGED nFailed
             /\ last' = [NoStep EXCEPT !.op = op, !.k = k, !.reloaded = TRUE,
                                       !.armed = d, !.stale = stale,
                                       !.connected = connected, !.wasHidden = hidden]

RemoveAt(s, i) == [j \in 1..(Len(s) - 1) |-> IF j < i THEN s[j] ELSE s[j + 1]]

\* 'error' event of the stream element: handleVideoError (lines 142-149), which
\* runs attemptReconnect with a fresh closure (attempts = 0)
HandleVideoError ==
    /\ nErrors < MaxErrors
    /\ nErrors' = nErrors + 1
    /\ consecErrors' = consecErrors + 1
    /\ cameraConnected' = FALSE
    /\ cameraIndicator' = updateCameraStatus(cameraIndicator, FALSE)
    /\ TryReconnect("error", 0, timers, FALSE, cameraConnected)
    /\ streamLoading' = last'.reloaded
    /\ UNCHANGED <<now, nLoads, pollVars, feedVars, tickVars, visVars>>

\* 'load' event of the stream element: handleVideoLoad (lines 154-158)
HandleVideoLoad ==
    /\ streamLoading
    /\ nLoads < MaxLoads
    /\ nLoads' = nLoads + 1
    /\ consecErrors' = 0
    /\ streamLoading' = FALSE
    /\ cameraConnected' = TRUE
    /\ cameraIndicator' = updateCameraStatus(cameraIndicator, TRUE)
    /\ timers' = [i \in 1..Len(timers) |-> [timers[i] EXCEPT !.stale = TRUE]]
    /\ last' = [NoStep EXCEPT !.op = "load", !.connected = cameraConnected,
                                 !.wasHidden = hidden]
    /\ UNCHANGED <<now, videoSrc, videoStatus, nReloads, nFailed, nErrors,
                   pollVars, feedVars, tickVars, visVars>>

\* expiry of timer i: the setTimeout callback of tryReconnect (lines 226-230)
ReconnectTimer(i) ==
    /\ timers[i].due <= now
    /\ IF TimerRetries(cameraConnected)
       THEN /\ TryReconnect("timer", timers[i].attempts, RemoveAt(timers, i),
                            timers[i].stale, cameraConnected)
            /\ streamLoading' = (streamLoading \/ last'.reloaded)
       ELSE /\ timers' = RemoveAt(timers, i)
            /\ last' = [NoStep EXCEPT !.op = "timer", !.k = timers[i].attempts,
                                      !.stale = timers[i].stale,
                                      !.connected = cameraConnected,
                                      !.wasHidden = hidden]
            /\ UNCHANGED <<videoSrc, videoStatus, nReloads, nFailed, streamLoading>>
    /\ UNCHANGED <<now, cameraConnected, cameraIndicator, nErrors, nLoads,
                   consecErrors, pollVars, feedVars, tickVars, visVars>>

ReconnectTimerExpiry == \E i \in 1..Len(timers) : ReconnectTimer(i)

\* ---- the polling channels ----
\* the request part of StatusManager.checkStatus (line 339): fetch('/api/status')
FetchStatusSkipped == UNCHANGED <<statusIssued, statusInFlight>>
FetchStatus ==
    /\ statusIssued' = statusIssued + 1
    /\ statusInFlight' = statusInFlight \cup {statusIssued + 1}

\* the request part of refreshRecentEvents (line 244): fetch('/api/logs?limit=10')
FetchEvents ==
    /\ eventsIssued' = eventsIssued + 1
    /\ eventsInFlight' = eventsInFlight \cup {eventsIssued + 1}

\* StatusManager.checkStatus (lines 334-352) up to the fetch call
checkStatus ==
    /\ cameraIndicator' = updateCameraStatus(cameraIndicator, cameraConnected)
    /\ FetchStatus

\* refreshRecentEvents (lines 240-258) up to the fetch call
refreshRecentEventsSkipped == UNCHANGED <<eventsIssued, eventsInFlight>>
refreshRecentEvents == FetchEvents

\* setInterval (lines 108, 113): the timer is re-armed one interval after each expiry
NextDueOnce(due, interval) == due + interval * 1000
NextDue(due, interval) == due + interval

\* the setInterval callback of lines 108-110
EventsTick ==
    /\ nextEventsTick <= now
    /\ nextEventsTick' = NextDue(nextEventsTick, refreshInterval)
    /\ refreshRecentEvents
    /\ last' = [NoStep EXCEPT !.op = "eventsTick", !.eventsReq = 1,
                              !.wasHidden = hidden]
    /\ UNCHANGED <<now, cameraIndicator, monitorVars, visVars, nextStatusTick,
                   statusIssued, statusInFlight, systemIndicator, networkIndicator,
                   failures, feedVars>>

\* the setInterval callback of lines 113-115
StatusTick ==
    /\ nextStatusTick <= now
    /\ nextStatusTick' = NextDue(nextStatusTick, statusCheckInterval)
    /\ checkStatus
    /\ last' = [NoStep EXCEPT !.op = "statusTick", !.statusReq = 1,
                              !.wasHidden = hidden]
    /\ UNCHANGED <<now, monitorVars, visVars, nextEventsTick,
                   eventsIssued, eventsInFlight, systemIndicator, networkIndicator,
                   failures, feedVars>>

\* 'resize' event of the window: handleResize (lines 181-186), whose body is empty
HandleResizeReloading ==
    /\ TryReconnect("resize", 0, timers, FALSE, cameraConnected)
    /\ streamLoading' = TRUE
    /\ UNCHANGED <<now, cameraConnected, cameraIndicator, nErrors, nLoads,
                   consecErrors, pollVars, feedVars, tickVars, visVars>>
HandleResize ==
    /\ last' = [NoStep EXCEPT !.op = "resize", !.wasHidden = hidden]
    /\ UNCHANGED <<now, cameraIndicator, monitorVars, pollVars, feedVars,
                   tickVars, visVars>>

\* 'visibilitychange' event: handleVisibilityChange (lines 191-197)
HandleVisibilityChangeAborting ==
    /\ nVisibility < MaxVisibility
    /\ nVisibility' = nVisibility + 1
    /\ hidden' = ~hidden
    /\ IF ~hidden'
       THEN /\ refreshRecentEvents
            /\ checkStatus
            /\ last' = [NoStep EXCEPT !.op = "visible", !.statusReq = 1,
                                      !.eventsReq = 1, !.wasHidden = hidden']
       ELSE /\ last' = [NoStep EXCEPT !.op = "hidden", !.wasHidden = hidden']
            /\ statusInFlight' = {}
            /\ eventsInFlight' = {}
            /\ UNCHANGED <<cameraIndicator, statusIssued, eventsIssued>>
    /\ UNCHANGED <<now, monitorVars, tickVars, systemIndicator, networkIndicator,
                   failures, feedVars>>
HandleVisibilityChange ==
    /\ nVisibility < MaxVisibility
    /\ nVisibility' = nVisibility + 1
    /\ hidden' = ~hidden
    /\ IF ~hidden'
       THEN /\ refreshRecentEvents
            /\ checkStatus
            /\ last' = [NoStep EXCEPT !.op = "visible", !.statusReq = 1,
                                      !.eventsReq = 1, !.wasHidden = hidden']
       ELSE /\ last' = [NoStep EXCEPT !.op = "hidden", !.wasHidden = hidden']
            /\ UNCHANGED <<cameraIndicator, statusIssued, statusInFlight,
                           eventsIssued, eventsInFlight>>
    /\ UNCHANGED <<now, monitorVars, tickVars, systemIndicator, networkIndicator,
                   failures, feedVars>>

\* what a settled /api/status request delivers: a rejection (network error or
\* unparsable body), or a body with success, status and network
StatusBodies == [success : BOOLEAN, status : {"online", "warning", "offline", "other"},
                 network : BOOLEAN]

\* the .then / .catch of checkStatus (lines 340-351)
StatusSettledMarksCamera(id, rejected, data) ==
    /\ id \in statusInFlight
    /\ statusInFlight' = statusInFlight \ {id}
    /\ IF rejected
       THEN /\ systemIndicator' = updateSystemStatus(systemIndicator, "false")
            /\ networkIndicator' = updateNetworkStatus(networkIndicator, FALSE)
            /\ cameraConnected' = FALSE
       ELSE IF data.success
       THEN /\ systemIndicator' = updateSystemStatus(systemIndicator, data.status)
            /\ networkIndicator' = updateNetworkStatus(networkIndicator, data.network)
            /\ UNCHANGED cameraConnected
       ELSE UNCHANGED <<systemIndicator, networkIndicator, cameraConnected>>
    /\ failures' = IF rejected \/ ~data.success THEN failures \cup {"status"}
                                                 ELSE failures
    /\ last' = [NoStep EXCEPT !.op = "statusSettled", !.wasHidden = hidden,
                              !.outcome = Outcome(rejected, data)]
    /\ UNCHANGED <<now, cameraIndicator, timers, videoSrc, videoStatus,
                   streamLoading, nReloads, nFailed, nErrors, nLoads, consecErrors,
                   tickVars, visVars, statusIssued, eventsIssued, eventsInFlight,
                   feedVars>>
StatusSettled(id, rejected, data) ==
    /\ id \in statusInFlight
    /\ statusInFlight' = statusInFlight \ {id}
    /\ IF rejected
       THEN /\ systemIndicator' = updateSystemStatus(systemIndicator, "false")
            /\ networkIndicator' = updateNetworkStatus(networkIndicator, FALSE)
       ELSE IF data.success
       THEN /\ systemIndicator' = updateSystemStatus(systemIndicator, data.status)
            /\ networkIndicator' = updateNetworkStatus(networkIndicator, data.network)
       ELSE UNCHANGED <<systemIndicator, networkIndicator>>
    /\ failures' = IF rejected \/ ~data.success THEN failures \cup {"status"}
                                                 ELSE failures
    /\ last' = [NoStep EXCEPT !.op = "statusSettled", !.wasHidden = hidden,
                              !.outcome = Outcome(rejected, data)]
    /\ UNCHANGED <<now, cameraIndicator, monitorVars, tickVars, visVars,
                   statusIssued, eventsIssued, eventsInFlight, feedVars>>

StatusResponse ==
    \E id \in statusInFlight : \E rejected \in BOOLEAN : \E data \in StatusBodies :
        StatusSettled(id, rejected, data)

\* ---- the event feed ----
\* length of a day in ms: toDateString() changes when the local date does
DayMs == 86400000

\* new Date().toDateString() as a day number: the page is opened on day 0,
\* OpenedAt ms after its midnight, and t counts the ms since then
Today(t) == (OpenedAt + t) \div DayMs

\* the event records the service may return: Date is a day number, Time a time
\* of day, Event the direction
EventIn == [Name |-> "J. Doe", Date |-> 0, Time |-> 1, Event |-> "IN"]
EventOut == [Name |-> "A. Roe", Date |-> -1, Time |-> 2, Event |-> "OUT"]
EventOther == [Name |-> "J. Doe", Date |-> 0, Time |-> 3, Event |-> "BREAK"]

EventLists == {<<>>, <<EventIn>>, <<EventOut, EventIn>>, <<EventOther, EventOut>>}

\* what a settled /api/logs request delivers besides a rejection
EventsBodies == [success : BOOLEAN, events : EventLists]

\* lines 274-291: one 'recent-event-item' of the display
RenderEventCachedDay(event, t) ==
    [time  |-> IF event.Date = Today(0)
               THEN [today |-> TRUE, date |-> 0, time |-> event.Time]
               ELSE [today |-> FALSE, date |-> event.Date, time |-> event.Time],
     name  |-> event.Name,
     class |-> IF event.Event = "IN" THEN "bg-success" ELSE "bg-secondary",
     badge |-> IF event.Event = "IN" THEN "Clock In" ELSE "Clock Out"]
RenderEvent(event, t) ==
    [time  |-> IF event.Date = Today(t)
               THEN [today |-> TRUE, date |-> 0, time |-> event.Time]
               ELSE [today |-> FALSE, date |-> event.Date, time |-> event.Time],
     name  |-> event.Name,
     class |-> IF event.Event = "IN" THEN "bg-success" ELSE "bg-secondary",
     badge |-> IF event.Event = "IN" THEN "Clock In" ELSE "Clock Out"]

\* updateRecentEventsDisplay (lines 263-301)
updateRecentEventsDisplayReversed(events) ==
    IF Len(events) = 0
    THEN UNCHANGED <<eventsDisplay, recognitionCount>>
    ELSE /\ eventsDisplay' = [i \in 1..Len(events) |->
                                  RenderEvent(events[Len(events) + 1 - i], now)]
         /\ recognitionCount' = Len(events)
updateRecentEventsDisplay(events) ==
    IF Len(events) = 0
    THEN UNCHANGED <<eventsDisplay, recognitionCount>>
    ELSE /\ eventsDisplay' = [i \in 1..Len(events) |-> RenderEvent(events[i], now)]
         /\ recognitionCount' = Len(events)

\* the .catch of refreshRecentEvents (lines 255-257): console.error only
EventsCatchClears ==
    /\ recentEvents' = <<>>
    /\ eventsDisplay' = <<>>
    /\ recognitionCount' = 0
EventsCatch == UNCHANGED feedVars

\* the .then / .catch of refreshRecentEvents (lines 245-257)
EventsSettled(id, rejected, data) ==
    /\ id \in eventsInFlight
    /\ eventsInFlight' = eventsInFlight \ {id}
    /\ IF rejected
       THEN EventsCatch
       ELSE IF data.success
       THEN /\ recentEvents' = data.events
            /\ updateRecentEventsDisplay(data.events)
       ELSE UNCHANGED feedVars
    /\ failures' = IF rejected \/ ~data.success THEN failures \cup {"events"}
                                                 ELSE failures
    /\ last' = [NoStep EXCEPT !.op = "eventsSettled", !.wasHidden = hidden,
                              !.outcome = Outcome(rejected, data)]
    /\ UNCHANGED <<now, cameraIndicator, monitorVars, tickVars, visVars,
                   statusIssued, statusInFlight, eventsIssued,
                   systemIndicator, networkIndicator>>

EventsResponse ==
    \E id \in eventsInFlight : \E rejected \in BOOLEAN : \E data \in EventsBodies :
        EventsSettled(id, rejected, data)

\* ---- the clock ----
Dues == {timers[i].due : i \in 1..Len(timers)} \cup {nextEventsTick, nextStatusTick}

\* time passes, but never past a timer that is due
Tick ==
    /\ now < MaxTime
    /\ \A d \in Dues : d > now
    /\ now' = Min({now + TimeStep, MaxTime} \cup Dues)
    /\ UNCHANGED <<cameraIndicator, monitorVars, pollVars, feedVars, tickVars,
                   visVars, last>>

\* ---- the state after NewaySecurity.init() (lines 33-52) ----
Init ==
    /\ now = 0
    /\ cameraConnected = FALSE
    /\ cameraIndicator = updateCameraStatus({}, FALSE)
    /\ timers = <<>>
    /\ videoSrc = [base |-> "/video_feed", tokens |-> <<>>]
    /\ videoStatus = 0
    /\ streamLoading = TRUE
    /\ nReloads = 0
    /\ nFailed = 0
    /\ nErrors = 0
    /\ nLoads = 0
    /\ consecErrors = 0
    /\ hidden = FALSE
    /\ nVisibility = 0
    /\ statusIssued = 1
    /\ statusInFlight = {1}
    /\ eventsIssued = 0
    /\ eventsInFlight = {}
    /\ systemIndicator = {}
    /\ networkIndicator = {}
    /\ failures = {}
    /\ recentEvents = <<>>
    /\ eventsDisplay = <<>>
    /\ recognitionCount = 0
    /\ nextEventsTick = refreshInterval
    /\ nextStatusTick = statusCheckInterval
    /\ last = NoStep

Next ==
    \/ HandleVideoError
    \/ HandleVideoLoad
    \/ ReconnectTimerExpiry
    \/ EventsTick
    \/ StatusTick
    \/ HandleVisibilityChange
    \/ HandleResize
    \/ StatusResponse
    \/ EventsResponse
    \/ Tick

Spec == Init /\ [][Next]_vars

\* the stream element and the reconnect logic alone: no poll tick, no response
\* and no visibility change is delivered to the page, so the clock runs up to
\* the first poll tick (refreshInterval), which is past the 12000 ms a retry
\* sequence needs to exhaust its attempts
NextMonitor ==
    \/ HandleVideoError
    \/ HandleVideoLoad
    \/ ReconnectTimerExpiry
    \/ Tick

SpecMonitor == Init /\ [][NextMonitor]_vars

\* the polling channels alone: the stream element dispatches no event
NextPoll ==
    \/ EventsTick
    \/ StatusTick
    \/ HandleVisibilityChange
    \/ HandleResize
    \/ StatusResponse
    \/ EventsResponse
    \/ Tick

SpecPoll == Init /\ [][NextPoll]_vars

\* the stream element together with the polling channels during the first
\* PageTime ms of the page, before the first poll tick: stream events, reconnect
\* timers, visibility changes (whose return calls refreshRecentEvents and
\* checkStatus) and the responses to the requests issued so far
NextPage ==
    \/ (nErrors < MaxPageErrors /\ HandleVideoError)
    \/ HandleVideoLoad
    \/ ReconnectTimerExpiry
    \/ HandleVisibilityChange
    \/ StatusResponse
    \/ EventsResponse
    \/ (Tick /\ now' <= PageTime)

SpecPage == Init /\ [][NextPage]_vars

\* ======================= the claims =======================

\* C1: each channel (status, events) has at most one request outstanding at
\* any time; a tick or on-demand call made while the previous request of the
\* channel is unanswered issues no new request.
C1_AtMostOneOutstanding ==
    /\ Cardinality(statusInFlight) <= 1
    /\ Cardinality(eventsInFlight) <= 1

\* C2: a stream error that arrives while a retry sequence is in progress starts
\* no second one: at most one retry sequence is active and at most one
\* reconnect timer is pending.
C2_SingleRetrySequence == Len(timers) <= 1

\* C3: once maxAttempts consecutive stream errors have occurred with no load in
\* between, the monitor has failed: as long as no further stream event arrives,
\* no stream reload is requested and no reconnect timer is armed.
C3_NoRetryAfterMaxErrors ==
    [][(consecErrors = reconnectAttempts /\ consecErrors' = consecErrors)
          => (nReloads' = nReloads /\ Len(timers') <= Len(timers))]_vars

\* C4: the timer armed after the k-th reload of a retry sequence, k in
\* 1..maxAttempts, has delay timeoutDelay * k and is due that long after it was
\* armed, so a later attempt of a sequence waits strictly longer.
C4_BackoffDelay ==
    /\ \A i \in 1..Len(timers) :
          /\ timers[i].attempts \in 1..reconnectAttempts
          /\ timers[i].delay = timeoutDelay * timers[i].attempts
          /\ timers[i].due = timers[i].armedAt + timers[i].delay
          /\ now <= timers[i].due
    /\ \A i, j \in 1..Len(timers) :
          timers[i].attempts < timers[j].attempts => timers[i].delay < timers[j].delay
    /\ last.reloaded => last.armed = timeoutDelay * last.k

\* C4 witness: the timer of the last attempt is pending with delay 3 * timeoutDelay
C4_Witness ==
    \E i \in 1..Len(timers) :
        /\ timers[i].attempts = reconnectAttempts
        /\ timers[i].delay = 6000
        /\ timers[i].armedAt > 0

\* C5: a successful stream load resets the retry counter: a reload requested
\* after it is never a continuation of a count reached before the load, that
\* is, no closure created before the load requests a reload.
C5_LoadResetsRetryCounter == last.reloaded => ~last.stale

\* C6: a reconnect timer that expires while the stream is connected requests no
\* reload, arms no timer and changes no state; one that expires while the
\* stream is not connected re-enters tryReconnect (which reloads or gives up).
C6_StaleTimerNoOp ==
    [][\A i \in 1..Len(timers) : ReconnectTimer(i) =>
          IF cameraConnected
          THEN /\ timers' = RemoveAt(timers, i)
               /\ UNCHANGED <<now, cameraConnected, cameraIndicator, videoSrc,
                              videoStatus, streamLoading, nReloads, nFailed>>
          ELSE \/ /\ nReloads' = nReloads + 1
                  /\ Len(timers') = Len(timers)
                  /\ videoStatus' = timers[i].attempts + 1
               \/ /\ nFailed' = nFailed + 1
                  /\ nReloads' = nReloads
                  /\ timers' = RemoveAt(timers, i)]_vars

\* C6 witness: a timer has just expired while the stream was connected
C6_Witness ==
    /\ last.op = "timer"
    /\ last.connected
    /\ cameraConnected
    /\ nErrors > 0

\* C7: when the stream never loads, automatic reconnection stops: at most
\* maxAttempts reloads are ever requested.
C7_FinitelyManyReloads == nLoads = 0 => nReloads <= reconnectAttempts

\* C8: once a retry sequence has given up and no timer is pending, no stream
\* error and no timer expiry causes a further reload or timer.
C8_FailedIsTerminal ==
    [][(nFailed > 0 /\ timers = <<>>)
          => (nReloads' = nReloads /\ timers' = <<>>)]_vars

\* C9: the "Failed to reconnect after multiple attempts" report is emitted at
\* most once (the page has no reset).
C9_FailedReportedOnce == nFailed <= 1

\* C10: while the page is hidden no periodic tick issues a status request or
\* an event-feed request.
C10_NoTickWhileHidden ==
    last.op \in {"eventsTick", "statusTick"} => ~last.wasHidden

\* the rejection branch of checkStatus applied to the indicators (lines 349-350)
SystemAfterRejection == updateSystemStatus(systemIndicator, "false")
NetworkAfterRejection == updateNetworkStatus(networkIndicator, FALSE)

\* C11: each hidden -> visible transition issues exactly one status request and
\* exactly one event-feed request, whatever the time spent hidden.
C11_OneCatchUpEach ==
    [][(hidden /\ ~hidden')
          => /\ statusIssued' = statusIssued + 1
             /\ statusInFlight' = statusInFlight \cup {statusIssued'}
             /\ eventsIssued' = eventsIssued + 1
             /\ eventsInFlight' = eventsInFlight \cup {eventsIssued'}]_vars

\* C11 witness: the page has become visible again after more than one events
\* interval
C11_Witness ==
    /\ last.op = "visible"
    /\ last.statusReq = 1
    /\ last.eventsReq = 1
    /\ ~hidden
    /\ now > refreshInterval

\* C12: a hidden -> visible transition re-arms both periodic timers from zero:
\* the next tick of each channel is due one full interval after the resume.
C12_RearmedOnResume ==
    [][(hidden /\ ~hidden')
          => /\ nextEventsTick' = now + refreshInterval
             /\ nextStatusTick' = now + statusCheckInterval]_vars

\* C13: a rejected /api/status request leaves the system indicator "offline"
\* and the network indicator disconnected.
C13_FailedStatusIsOffline ==
    (last.op = "statusSettled" /\ last.outcome = "rejected")
        => /\ systemIndicator = {"status-offline"}
           /\ networkIndicator = {"status-offline"}

\* C14: a response with success: false is treated as a rejected request is: on
\* the status channel the indicators end as a rejection leaves them, on the
\* events channel the feed is left untouched.
C14_NonSuccessLikeRejection ==
    [][/\ \A id \in statusInFlight : \A data \in StatusBodies :
             (~data.success /\ StatusSettled(id, FALSE, data))
                 => /\ systemIndicator' = SystemAfterRejection
                    /\ networkIndicator' = NetworkAfterRejection
       /\ \A id \in eventsInFlight : \A data \in EventsBodies :
             (~data.success /\ EventsSettled(id, FALSE, data))
                 => UNCHANGED feedVars]_vars

\* the display that shows exactly the given events
Rendered(events) == [i \in 1..Len(events) |-> RenderEvent(events[i], now)]

\* C15: a rejected event-feed request leaves state.recentEvents, the displayed
\* feed and the count exactly as they were.
C15_FailedRefreshKeepsFeed ==
    [][(last'.op = "eventsSettled" /\ last'.outcome = "rejected"
            /\ eventsInFlight' # eventsInFlight)
          => UNCHANGED feedVars]_vars

\* C15 witness: a refresh has just been rejected while the feed showed events
C15_Witness ==
    /\ last.op = "eventsSettled"
    /\ last.outcome = "rejected"
    /\ recentEvents # <<>>
    /\ Len(eventsDisplay) = Len(recentEvents)

\* C16: after every successful event-feed response, an empty one included, the
\* displayed feed holds exactly the events of that response.
C16_FullReplace ==
    [][(last'.op = "eventsSettled" /\ last'.outcome = "success"
            /\ eventsInFlight' # eventsInFlight)
          => eventsDisplay' = Rendered(recentEvents')]_vars

C18_InitialRefresh == now < refreshInterval => eventsIssued >= 1

\* C19: the status poller issues one request at start and one per
\* statusCheckInterval tick (plus one per return to visibility; the page starts
\* visible, so every second visibility change is a return).
C19_StatusOncePerTick ==
    /\ nextStatusTick % statusCheckInterval = 0
    /\ statusIssued = (nextStatusTick \div statusCheckInterval) + (nVisibility \div 2)
    /\ (now < statusCheckInterval /\ nVisibility = 0) => statusIssued = 1

\* C19 witness: the first periodic status tick has just issued the second request
C19_Witness ==
    /\ last.op = "statusTick"
    /\ nVisibility = 0
    /\ statusIssued = 2
    /\ now = statusCheckInterval

\* C20: hiding the page aborts no request, and a response that settles while
\* the page is hidden is applied as the handlers apply it: the indicators take
\* the values of the body, the stored events are the body's events and the
\* display and count stay in step.
C20_InFlightSurvivesHiding ==
    [][/\ (~hidden /\ hidden')
             => UNCHANGED <<statusInFlight, eventsInFlight>>
       /\ (hidden /\ last'.op = "statusSettled" /\ last'.outcome = "success"
               /\ statusInFlight' # statusInFlight)
             => /\ \E data \in StatusBodies :
                      /\ systemIndicator' = updateSystemStatus(systemIndicator, data.status)
                      /\ networkIndicator' = updateNetworkStatus(networkIndicator, data.network)
                /\ Cardinality(networkIndicator') = 1
                /\ Cardinality(systemIndicator') <= 1
       /\ (hidden /\ last'.op = "eventsSettled" /\ last'.outcome = "success"
               /\ eventsInFlight' # eventsInFlight)
             => /\ recentEvents' \in EventLists
                /\ recentEvents' # <<>> => eventsDisplay' = Rendered(recentEvents')
                /\ recognitionCount' = Len(eventsDisplay')]_vars

\* C20 witness: the status request issued at start, while the page was visible,
\* has been answered successfully while the page was hidden
C20_Witness ==
    /\ last.op = "statusSettled"
    /\ last.outcome = "success"
    /\ last.wasHidden
    /\ hidden
    /\ statusIssued = 1
    /\ statusInFlight = {}
    /\ systemIndicator = {"status-warning"}

\* C21: within one channel the responses are applied in request order: when
\* the response to a request is applied, no request of the channel issued
\* after it has settled already, so what the channel displays comes from the
\* most recently issued request that has completed.
C21_ResponsesInRequestOrder ==
    [][/\ \A id \in statusInFlight :
             (id \notin statusInFlight' /\ last'.outcome \in {"success", "rejected"})
                 => \A later \in (id + 1)..statusIssued : later \in statusInFlight
       /\ \A id \in eventsInFlight :
             (id \notin eventsInFlight' /\ last'.outcome = "success")
                 => \A later \in (id + 1)..eventsIssued : later \in eventsInFlight]_vars

\* C22: the camera indicator always agrees with the connection state: after
\* every stream 'load', stream 'error' and checkStatus call it shows connected
\* exactly when state.cameraConnected is true (and disconnected otherwise).
C22_CameraIndicatorAgrees ==
    /\ cameraConnected => cameraIndicator = {"status-online"}
    /\ ~cameraConnected => cameraIndicator = {"status-offline"}

\* C22 witness: after an 'error' and a later 'load', the return to visibility
\* has called checkStatus, which re-emitted the connected state
C22_Witness ==
    /\ last.op = "visible"
    /\ last.statusReq = 1
    /\ nErrors >= 1
    /\ nLoads >= 1
    /\ cameraConnected
    /\ cameraIndicator = {"status-online"}

\* C23: after any status update (a successful response, a rejected request,
\* or a response carrying another status value) the system indicator carries
\* exactly one of the classes online, warning, offline, never none of them.
C23_ExactlyOneSystemClass ==
    (last.op = "statusSettled" /\ last.outcome \in {"success", "rejected"})
        => Cardinality(systemIndicator \cap
               {"status-online", "status-warning", "status-offline"}) = 1

\* C24: in every rendered feed the badge of a record follows its direction:
\* "IN" gives the affirmative "Clock In" badge, "OUT" the neutral "Clock Out"
\* badge, and any other direction a fallback that is neither of the two.
C24_DirectionBadge ==
    [][(last'.op = "eventsSettled" /\ last'.outcome = "success"
            /\ eventsInFlight' # eventsInFlight /\ recentEvents' # <<>>)
          => /\ Len(eventsDisplay') = Len(recentEvents')
             /\ \A i \in 1..Len(recentEvents') :
                   LET direction == recentEvents'[i].Event
                       item == eventsDisplay'[i]
                   IN  /\ direction = "IN"
                          => item.badge = "Clock In" /\ item.class = "bg-success"
                       /\ direction = "OUT"
                          => item.badge = "Clock Out" /\ item.class = "bg-secondary"
                       /\ direction \notin {"IN", "OUT"}
                          => item.badge \notin {"Clock In", "Clock Out"}]_vars

\* C25: in every rendered feed a record carries the time-only "Today" label
\* exactly when its date is the local date at the time of the render, and the
\* full date-time label otherwise; the label is computed anew at each render,
\* so a record rendered on a later day than its date gets the full form.
C25_TodayLabel ==
    [][(last'.op = "eventsSettled" /\ last'.outcome = "success"
            /\ eventsInFlight' # eventsInFlight /\ recentEvents' # <<>>)
          => /\ Len(eventsDisplay') = Len(recentEvents')
             /\ \A i \in 1..Len(recentEvents') :
                   LET event == recentEvents'[i]
                       label == eventsDisplay'[i].time
                   IN  /\ label.today <=> (event.Date = Today(now))
                       /\ label.time = event.Time
                       /\ ~label.today => label.date = event.Date]_vars

\* C25 witness: a record dated day 0, the day the page was opened, has been
\* rendered after midnight and carries the full date-time label
C25_Witness ==
    /\ last.op = "eventsSettled"
    /\ last.outcome = "success"
    /\ Today(now) = 1
    /\ recentEvents = <<EventIn>>
    /\ Len(eventsDisplay) = 1
    /\ ~eventsDisplay[1].time.today
    /\ eventsDisplay[1].time.date = 0

\* C26: the feed is never re-sorted: after every response that is rendered,
\* the displayed items are the events of the response in the order in which
\* the service returned them (item i shows event i).
C26_ServiceOrderKept ==
    [][(last'.op = "eventsSettled" /\ last'.outcome = "success"
            /\ eventsInFlight' # eventsInFlight /\ recentEvents' # <<>>)
          => /\ recentEvents' \in EventLists
             /\ Len(eventsDisplay') = Len(recentEvents')
             /\ \A i \in 1..Len(recentEvents') :
                   /\ eventsDisplay'[i].name = recentEvents'[i].Name
                   /\ eventsDisplay'[i].time.time = recentEvents'[i].Time]_vars

\* C26 witness: a response whose events are in neither ascending nor
\* descending order of time of day (the older record first) is displayed as sent
C26_Witness ==
    /\ last.op = "eventsSettled"
    /\ last.outcome = "success"
    /\ recentEvents = <<EventOut, EventIn>>
    /\ Len(eventsDisplay) = 2
    /\ eventsDisplay[1].name = "A. Roe"
    /\ eventsDisplay[2].name = "J. Doe"

\* C27: no reconnect sequence starts without a stream error: as long as the
\* stream element has dispatched no 'error' event, whatever initialization,
\* poll ticks, poll responses, visibility changes and resizes have happened,
\* no reload of the stream has been requested, no reconnect timer is armed and
\* the stream URL and the reconnect message are untouched.
C27_NoReconnectWithoutError ==
    nErrors = 0
        => /\ nReloads = 0
           /\ timers = <<>>
           /\ videoSrc = [base |-> "/video_feed", tokens |-> <<>>]
           /\ videoStatus = 0
           /\ nFailed = 0

\* C27 witness: a minute into the page, after poll ticks of both channels, a
\* hide and a return, failed and answered requests, and a resize as the last
\* event, no reload has been requested
C27_Witness ==
    /\ nErrors = 0
    /\ nReloads = 0
    /\ last.op = "resize"
    /\ nVisibility = 2
    /\ now >= statusCheckInterval
    /\ statusIssued >= 3
    /\ eventsIssued >= 3
    /\ failures = {"status", "events"}
    /\ statusInFlight = {}

\* C28: each piece of state is written by its owner only: a step that applies
\* a status response or a status failure leaves the stored events, the
\* displayed feed, the count and state.cameraConnected unchanged; a step that
\* applies an event-feed response leaves the system and network indicators and
\* state.cameraConnected unchanged; and state.cameraConnected changes only in
\* a stream 'load' or a stream 'error' step.
C28_OwnersOnly ==
    [][/\ (last'.op = "statusSettled" /\ statusInFlight' # statusInFlight)
             => UNCHANGED <<recentEvents, eventsDisplay, recognitionCount,
                            cameraConnected>>
       /\ (last'.op = "eventsSettled" /\ eventsInFlight' # eventsInFlight)
             => UNCHANGED <<systemIndicator, networkIndicator, cameraConnected>>
       /\ cameraConnected' # cameraConnected
             => \/ last'.op = "load" /\ nLoads' = nLoads + 1
                \/ last'.op = "error" /\ nErrors' = nErrors + 1]_vars

\* C28 witness: a status request has just been rejected while the stream was
\* connected and the feed showed events, after an events response was applied
\* while the indicators were set
C28_Witness ==
    /\ last.op = "statusSettled"
    /\ last.outcome = "rejected"
    /\ cameraConnected
    /\ nErrors >= 1
    /\ recentEvents # <<>>
    /\ Len(eventsDisplay) = Len(recentEvents)
    /\ networkIndicator = {"status-offline"}

\* C29: a reconnect timer armed before a 'load' never causes a reload after
\* that load: when such a timer expires, also when the stream has errored
\* again in between, its callback requests no reload, arms no timer and
\* reports nothing; it only leaves the set of pending timers.
C29_OldTimerIsInert ==
    [][\A i \in 1..Len(timers) :
          (timers[i].stale /\ ReconnectTimer(i))
              => /\ nReloads' = nReloads
                 /\ videoSrc' = videoSrc
                 /\ nFailed' = nFailed
                 /\ timers' = RemoveAt(timers, i)]_vars

\* C30: the stored events and the displayed feed always agree: the display
\* has one item per record of state.recentEvents, item i showing record i, and
\* the recognition count is the number of displayed items.
C30_StoredMatchesDisplayed ==
    /\ Len(eventsDisplay) = Len(recentEvents)
    /\ \A i \in 1..Len(eventsDisplay) :
          i <= Len(recentEvents)
              => /\ eventsDisplay[i].name = recentEvents[i].Name
                 /\ eventsDisplay[i].time.time = recentEvents[i].Time
    /\ recognitionCount = Len(eventsDisplay)

\* C31: every reload assigns the stream URL as the base URL followed by
\* exactly one '?t=' token, the time of the reload: however many reloads have
\* happened the URL carries a single token, never the earlier ones as well,
\* and the token of a reload is not smaller than the token it replaces.
C31_SingleToken ==
    [][nReloads' # nReloads
          => /\ nReloads' = nReloads + 1
             /\ videoSrc'.base = "/video_feed"
             /\ Len(videoSrc'.tokens) = 1
             /\ videoSrc'.tokens[1] = now
             /\ \A i \in 1..Len(videoSrc.tokens) :
                   videoSrc.tokens[i] <= videoSrc'.tokens[1]]_vars

\* C31 witness: the third reload, made later than the first, has left the URL
\* with one token, the time of that reload
C31_Witness ==
    /\ last.reloaded
    /\ nReloads >= 3
    /\ now >= timeoutDelay
    /\ videoSrc = [base |-> "/video_feed", tokens |-> <<now>>]

====
